---- MODULE Spec2Model ----
(***************************************************************************)
(* Purchase lists of compras-backend: the draft -> final workflow of       *)
(* core/views.py (PurchaseListViewSet), the item serializers of            *)
(* core/serializers.py and the model validation of core/models.py.         *)
(*                                                                         *)
(* The database is autocommit (purchases/settings.py sets no               *)
(* ATOMIC_REQUESTS), so every save() of a handler is durable at once.      *)
(* Under Spec each request runs to completion before the next starts.      *)
(***************************************************************************)
EXTENDS Integers, Sequences, FiniteSets, TLC

VARIABLES lists, items, now, inflight, units

vars == <<lists, items, now, inflight, units>>

(***************************************************************************)
(* Bounds                                                                  *)
(***************************************************************************)
MaxLists == 2
MaxItems == 2
MaxTime == 1
MaxPrice == 1
MaxQty == 1
MaxLongItems == 12
MaxPricedPrefix == 3
MaxCents == 15
MaxReportTime == 2
TicksPerDay == 1
MaxWorkers == 2
TicksPerYear == 1
BaseYear == 2025

(***************************************************************************)
(* Optional values (Python None / a value)                                 *)
(***************************************************************************)
None == <<>>
Some(v) == <<v>>

(***************************************************************************)
(* Values of a JSON payload key: absent, null, "", a text that is no       *)
(* number, or a number (in the unit the model stores).                     *)
(***************************************************************************)
Absent == [k |-> "absent", n |-> 0]
Null == [k |-> "null", n |-> 0]
Blank == [k |-> "blank", n |-> 0]
Garbage == [k |-> "garbage", n |-> 0]
Num(n) == [k |-> "num", n |-> n]

(***************************************************************************)
(* The catalogue: two users, each with a restaurant, a currency unit, a    *)
(* non-currency unit and a product of their own (rows of Restaurant, Unit  *)
(* and Product; names and codes as in seed.py and seed_extended.py).       *)
(***************************************************************************)
Users == {"ana", "beto"}

Restaurants == 1 .. 2
RestaurantOwner == <<"ana", "beto">>
RestaurantCode == <<"ALP", "MIL">>

Units == 1 .. 4
UnitOwner == <<"ana", "ana", "beto", "beto">>
UnitName == <<"Soles", "Kilogramo", "Soles", "Kilogramo">>
UnitIsCurrency == <<TRUE, FALSE, TRUE, FALSE>>

(* The rows of the Unit table as seeded.  Under every specification but    *)
(* SpecUnits no request touches the table, and the operators read the      *)
(* flags from UnitIsCurrency.                                              *)
SeedUnits == [k \in Units |-> [is_currency |-> UnitIsCurrency[k], deleted |-> FALSE]]

Products == 1 .. 2
ProductOwner == <<"ana", "beto">>
ProductName == <<"Cebolla", "Caballa">>

RestaurantName == <<"Al Punto", "Mil Delicias">>
UnitSymbol == <<"S/", "kg", "S/", "kg">>

Categories == 1 .. 2
CategoryName == <<"Pescados", "Verduras">>
ProductCategory == <<2, 1>>

ListIds == 1 .. Len(lists)
ItemIds == 1 .. Len(items)

Prices == 0 .. MaxPrice
RowPrices == 1 .. MaxPrice
Quantities == 1 .. MaxQty

(***************************************************************************)
(* timezone.now(): the clock, and the calendar year of an instant          *)
(***************************************************************************)
YearOf(t) == BaseYear + (t \div TicksPerYear)

Tick ==
    /\ now < MaxTime
    /\ now' = now + 1
    /\ UNCHANGED <<lists, items, inflight, units>>

(***************************************************************************)
(* Responses: the HTTP status, the kind of answer and the fields of the    *)
(* body.  A handler is a function of the database and the request that     *)
(* gives the database it leaves and the response it returns.               *)
(***************************************************************************)
NoBody == [updated |-> 0, names |-> <<>>, more |-> 0, series_code |-> None]

Resp(code, detail, body) == [code |-> code, detail |-> detail, body |-> body]

Result(ls, its, resp) == [lists |-> ls, items |-> its, response |-> resp]

Commit(r) ==
    /\ lists' = r.lists
    /\ items' = r.items
    /\ UNCHANGED <<now, inflight, units>>

(***************************************************************************)
(* PurchaseListViewSet.get_queryset / get_object: a user sees only the     *)
(* lists they created; any other pk answers 404.                           *)
(***************************************************************************)
Visible(u, l) == l \in ListIds /\ lists[l].created_by = Some(u)

(***************************************************************************)
(* PurchaseListViewSet.perform_create with PurchaseListSerializer:         *)
(* series_code, status, created_by, created_at, finalized_at are           *)
(* read-only, so a new list takes the model defaults; the restaurant is    *)
(* any restaurant (the serializer does not filter it by owner).            *)
(***************************************************************************)
NewList(u, r) ==
    [restaurant |-> r, status |-> "draft", series_code |-> None,
     observation |-> None, created_by |-> Some(u), created_at |-> now,
     finalized_at |-> None]

CreateList(u, r) ==
    /\ Len(lists) < MaxLists
    /\ lists' = Append(lists, NewList(u, r))
    /\ UNCHANGED <<items, now, inflight, units>>

(***************************************************************************)
(* PUT / PATCH purchase-lists/{pk}/ (ModelViewSet.update with              *)
(* PurchaseListSerializer): of the fields the model tracks only restaurant *)
(* and observation are writable; whatever the request carries for          *)
(* series_code, status, created_by, created_at, finalized_at is dropped.   *)
(* The handler has no guard on the status of the list.                     *)
(***************************************************************************)
ListWritableFields_WithStatus == {"restaurant", "observation", "status"}

ListWritableFields == {"restaurant", "observation"}

UpdatedList(pl, data) ==
    [f \in DOMAIN pl |->
        IF f \in ListWritableFields \cap DOMAIN data THEN data[f] ELSE pl[f]]

UpdateListResult(u, l, data) ==
    IF ~Visible(u, l)
    THEN Result(lists, items, Resp(404, "not_found", NoBody))
    ELSE Result([lists EXCEPT ![l] = UpdatedList(lists[l], data)], items,
                Resp(200, "updated", NoBody))

UpdateList(u, l, data) == Commit(UpdateListResult(u, l, data))

(* Request bodies of an update: a restaurant, and the values of a draft    *)
(* list for the read-only fields.                                          *)
UpdateInputs ==
    [restaurant : Restaurants, status : {"draft"}, series_code : {None},
     finalized_at : {None}]

(***************************************************************************)
(* PurchaseList.items (related_name="items"): the ids of the items of a    *)
(* list, in id order.                                                      *)
(***************************************************************************)
AllItemIds == [i \in 1 .. Len(items) |-> i]

ItemsOf(l) ==
    LET InList(i) == items[i].purchase_list = l
    IN  SelectSeq(AllItemIds, InList)

(***************************************************************************)
(* The guard `pl.status == "final"` of finalize, items (POST), complete.   *)
(***************************************************************************)
IsFinal_WrongCase(pl) == pl.status = "Final"

IsFinal(pl) == pl.status = "final"

(***************************************************************************)
(* _ensure_complete_prices: the product names of the non-currency items    *)
(* of the list whose price_soles is None, in iteration order; it raises    *)
(* ValidationError exactly when that list is not empty.                    *)
(***************************************************************************)
MissingPrice_DroppedNot(it) == UnitIsCurrency[it.unit] /\ it.price_soles = None

MissingPrice_ZeroIsMissing(it) ==
    ~UnitIsCurrency[it.unit] /\ it.price_soles \in {None, Some(0)}

MissingPrice(it) == ~UnitIsCurrency[it.unit] /\ it.price_soles = None

Missing(its, l) ==
    LET ids == SelectSeq([i \in 1 .. Len(its) |-> i],
                         LAMBDA i : its[i].purchase_list = l /\ MissingPrice(its[i]))
    IN  [k \in 1 .. Len(ids) |-> ProductName[its[ids[k]].product]]

NameLimit == 10

Min(a, b) == IF a < b THEN a ELSE b

EnsureMessage_CountsAll(missing) ==
    [names |-> SubSeq(missing, 1, Min(NameLimit, Len(missing))),
     more |-> IF Len(missing) <= NameLimit THEN 0 ELSE Len(missing)]

EnsureMessage(missing) ==
    [names |-> SubSeq(missing, 1, Min(NameLimit, Len(missing))),
     more |-> IF Len(missing) <= NameLimit THEN 0 ELSE Len(missing) - NameLimit]

(***************************************************************************)
(* The series code.  Both handlers try, in this order,                     *)
(*   from .services.serials import next_series_code   -- no such name in   *)
(*       services/serials.py (it defines next_serial_for): ImportError;    *)
(*   generate_series_code(pl.restaurant)  -- services.py requires a        *)
(*       second positional argument model_cls: TypeError (or ImportError   *)
(*       when the services package shadows services.py);                   *)
(*   f"{timezone.now().year}-{pl.restaurant.code}-{pl.id:04d}".            *)
(* Each failure is caught by `except Exception`, so the third is the code  *)
(* every finalization assigns.                                             *)
(***************************************************************************)
Pad4(n) ==
    IF n < 10 THEN "000" \o ToString(n)
    ELSE IF n < 100 THEN "00" \o ToString(n)
    ELSE IF n < 1000 THEN "0" \o ToString(n)
    ELSE ToString(n)

FormatSeries(year, code, seq) ==
    ToString(year) \o "-" \o code \o "-" \o Pad4(seq)

SeriesCodeFor_NoSequence(pl, id) ==
    FormatSeries(YearOf(now), RestaurantCode[pl.restaurant], 1)

SeriesCodeFor_CountFinalized(pl, id) ==
    FormatSeries(YearOf(now), RestaurantCode[pl.restaurant],
                 Cardinality({k \in ListIds :
                                 /\ lists[k].restaurant = pl.restaurant
                                 /\ lists[k].series_code # None}) + 1)

SeriesCodeFor(pl, id) ==
    FormatSeries(YearOf(now), RestaurantCode[pl.restaurant], id)

(***************************************************************************)
(* The three assignments and the single save(update_fields=[status,        *)
(* finalized_at, series_code]) that end finalize and complete.             *)
(***************************************************************************)
MarkFinal_NoTimestamp(pl, id) ==
    [pl EXCEPT !.status = "final",
               !.series_code = IF pl.series_code = None
                               THEN Some(SeriesCodeFor(pl, id))
                               ELSE pl.series_code]

MarkFinal(pl, id) ==
    [pl EXCEPT !.status = "final",
               !.finalized_at = Some(now),
               !.series_code = IF pl.series_code = None
                               THEN Some(SeriesCodeFor(pl, id))
                               ELSE pl.series_code]

(***************************************************************************)
(* POST purchase-lists/{pk}/finalize/                                      *)
(***************************************************************************)
FinalizeResult(u, l) ==
    IF ~Visible(u, l)
    THEN Result(lists, items, Resp(404, "not_found", NoBody))
    ELSE IF IsFinal(lists[l])
    THEN Result(lists, items, Resp(400, "already_final", NoBody))
    ELSE IF Missing(items, l) # <<>>
    THEN Result(lists, items,
                Resp(400, "incomplete",
                     [NoBody EXCEPT !.names = EnsureMessage(Missing(items, l)).names,
                                    !.more = EnsureMessage(Missing(items, l)).more]))
    ELSE Result([lists EXCEPT ![l] = MarkFinal(lists[l], l)], items,
                Resp(200, "finalized",
                     [NoBody EXCEPT !.series_code = MarkFinal(lists[l], l).series_code]))

Finalize(u, l) == Commit(FinalizeResult(u, l))

(***************************************************************************)
(* PurchaseListItem.clean, run by the admin's model forms                  *)
(* (PurchaseListItemInline, PurchaseListItemAdmin) before saving.          *)
(***************************************************************************)
Clean_NoFinalCheck(it) ==
    UnitIsCurrency[it.unit] => it.price_soles \in {None, Some(0)}

Clean(it) ==
    IF UnitIsCurrency[it.unit]
    THEN it.price_soles \in {None, Some(0)}
    ELSE ~(lists[it.purchase_list].status = "final" /\ it.price_soles = None)

(***************************************************************************)
(* The admin adds an item to a list: the form is saved when clean()        *)
(* accepts it; a rejected form changes nothing.                            *)
(***************************************************************************)
AdminSaveItem(it, limit) ==
    /\ Len(items) < limit
    /\ it.purchase_list \in ListIds
    /\ Clean(it)
    /\ items' = Append(items, it)
    /\ UNCHANGED <<lists, now, inflight, units>>

AdminAddItem(it) == AdminSaveItem(it, MaxItems)

StoredPrices == {None} \cup {Some(p) : p \in Prices}

ItemRecords ==
    [purchase_list : 1 .. MaxLists, product : Products, unit : Units,
     qty : Quantities, price_soles : StoredPrices]

(***************************************************************************)
(* POST purchase-lists/{pk}/items/ with PurchaseListItemSerializer.        *)
(* The view puts purchase_list = pl.id into the data, but the serializer   *)
(* lists purchase_list in read_only_fields, so validated_data holds only   *)
(* the writable fields.  ModelSerializer.create() calls                    *)
(* PurchaseListItem.objects.create with validated_data; the non-null       *)
(* foreign key purchase_list has no value and the insert raises            *)
(* IntegrityError, which the view turns into a 400.                        *)
(***************************************************************************)
WritableFields == {"product", "unit", "qty", "price_soles"}

IsValid(u, data) ==
    /\ data.product \in Products /\ ProductOwner[data.product] = u
    /\ data.unit \in Units /\ UnitOwner[data.unit] = u
    /\ data.qty.k = "num"
    /\ data.price_soles.k \in {"absent", "null", "num"}

ValidatedData(data) ==
    [f \in WritableFields \cap DOMAIN data |->
        CASE f = "product" -> data.product
          [] f = "unit" -> data.unit
          [] f = "qty" -> data.qty.n
          [] f = "price_soles" -> IF data.price_soles.k = "num"
                                  THEN Some(data.price_soles.n) ELSE None]

CanInsert(validated) == "purchase_list" \in DOMAIN validated

AddItemResult(u, l, data) ==
    IF ~Visible(u, l)
    THEN Result(lists, items, Resp(404, "not_found", NoBody))
    ELSE IF IsFinal(lists[l])
    THEN Result(lists, items, Resp(400, "list_final", NoBody))
    ELSE IF ~IsValid(u, data)
    THEN Result(lists, items, Resp(400, "invalid", NoBody))
    ELSE IF ~CanInsert(ValidatedData(data))
    THEN Result(lists, items, Resp(400, "save_failed", NoBody))
    ELSE Result(lists, Append(items, ValidatedData(data)),
                Resp(201, "created", NoBody))

AddItem(u, l, data) ==
    /\ Len(AddItemResult(u, l, data).items) <= MaxItems
    /\ Commit(AddItemResult(u, l, data))

AddItemInputs(l) ==
    [purchase_list : {l}, product : Products, unit : Units,
     qty : {Absent} \cup {Num(q) : q \in Quantities},
     price_soles : {Absent, Garbage} \cup {Num(p) : p \in RowPrices}]

StepAddItemInputs(u, l) ==
    IF Visible(u, l) /\ ~IsFinal(lists[l])
    THEN AddItemInputs(l)
    ELSE {d \in AddItemInputs(l) :
            d.product = 1 /\ d.unit = 2 /\ d.qty.k = "num" /\ d.price_soles.k = "num"}

(***************************************************************************)
(* PurchaseListItemPatchSerializer (the second class of that name, which   *)
(* replaces the first): to_internal_value maps the aliases price_soles ->  *)
(* price and qty -> quantity, the CharFields and validate_price /          *)
(* validate_quantity parse the values, update() writes the instance.       *)
(***************************************************************************)
Alias(main, other) == IF main.k # "absent" THEN main ELSE other

ToInternalValue(data) ==
    [price |-> Alias(data.price, data.price_soles),
     quantity |-> Alias(data.quantity, data.qty)]

FieldIsValid(v) == v.k \in {"absent", "null", "num"}

PatchIsValid(data) ==
    /\ FieldIsValid(ToInternalValue(data).price)
    /\ FieldIsValid(ToInternalValue(data).quantity)

ValidatedValue(v) == IF v.k = "num" THEN Some(v.n) ELSE None

Update(it, data) ==
    LET d == ToInternalValue(data)
        q == IF d.quantity.k = "num" THEN d.quantity.n ELSE it.qty
        p == IF UnitIsCurrency[it.unit] THEN None
             ELSE IF d.price.k # "absent" THEN ValidatedValue(d.price)
             ELSE it.price_soles
    IN  [it EXCEPT !.qty = q, !.price_soles = p]

PatchItemResult(i, data) ==
    IF ~PatchIsValid(data)
    THEN Result(lists, items, Resp(400, "invalid", NoBody))
    ELSE Result(lists, [items EXCEPT ![i] = Update(items[i], data)],
                Resp(200, "patched", NoBody))

PatchItem(i, data) ==
    /\ i \in ItemIds
    /\ Commit(PatchItemResult(i, data))

(***************************************************************************)
(* Payloads of a patch: a key and its alias, each absent or given.         *)
(***************************************************************************)
KeyAndAlias(nums) ==
    {<<Absent, Absent>>, <<Null, Absent>>, <<Garbage, Absent>>}
    \cup {<<Num(n), Absent>> : n \in nums}
    \cup {<<Absent, Num(n)>> : n \in nums}
    \cup {<<Null, Num(n)>> : n \in nums}

PatchInputs ==
    {[price |-> p[1], price_soles |-> p[2], quantity |-> q[1], qty |-> q[2]] :
        p \in KeyAndAlias(RowPrices), q \in KeyAndAlias(Quantities)}

(***************************************************************************)
(* POST purchase-lists/{pk}/complete/                                      *)
(* A row of the "items" payload; the handler reads the keys "id" and       *)
(* "price_soles" and no other.                                             *)
(***************************************************************************)
RowId(row) == IF row.id.k = "num" THEN Some(row.id.n) ELSE None

RowPrice_PriceKey(row) == row.price

RowPrice(row) == row.price_soles

IsEmptyPrice(v) == v.k \in {"absent", "null", "blank"}

RaisesInvalidOperation(v) == ~IsEmptyPrice(v) /\ v.k # "num"

ToPrice_OrZero(v) == IF IsEmptyPrice(v) THEN Some(0) ELSE Some(v.n)

ToPrice(v) == IF IsEmptyPrice(v) THEN None ELSE Some(v.n)

(***************************************************************************)
(* One turn of the loop `for row in items_payload`.  st is the loop state: *)
(* the items table, the count of updates, and whether Decimal() raised.    *)
(***************************************************************************)
ApplyRow(st, row, l) ==
    IF RowId(row) = None THEN st
    ELSE LET iid == RowId(row)[1]
         IN  IF ~(iid \in 1 .. Len(st.items) /\ st.items[iid].purchase_list = l)
             THEN st
             ELSE IF UnitIsCurrency[st.items[iid].unit]
             THEN st
             ELSE IF RaisesInvalidOperation(RowPrice(row))
             THEN [st EXCEPT !.raised = TRUE]
             ELSE [st EXCEPT !.items[iid].price_soles = ToPrice(RowPrice(row)),
                             !.updated = st.updated + 1]

RECURSIVE ApplyRows(_, _, _)
ApplyRows(st, rows, l) ==
    IF rows = <<>> \/ st.raised THEN st
    ELSE ApplyRows(ApplyRow(st, Head(rows), l), Tail(rows), l)

(***************************************************************************)
(* `pl.observation = str(obs).strip() or None`, saved when obs is given.   *)
(***************************************************************************)
WithObservation(pl, obs) ==
    IF obs.k \in {"absent", "null"} THEN pl
    ELSE [pl EXCEPT !.observation = IF obs.k = "blank" THEN None ELSE Some("nota")]

CompleteResult(u, l, obs, rows) ==
    IF ~Visible(u, l)
    THEN Result(lists, items, Resp(404, "not_found", NoBody))
    ELSE IF IsFinal(lists[l])
    THEN Result(lists, items, Resp(400, "already_final", NoBody))
    ELSE LET pl == WithObservation(lists[l], obs)
             st == ApplyRows([items |-> items, updated |-> 0, raised |-> FALSE],
                             rows, l)
         IN  IF st.raised
             THEN Result([lists EXCEPT ![l] = pl], st.items,
                         Resp(500, "server_error", NoBody))
             ELSE IF Missing(st.items, l) # <<>>
             THEN Result([lists EXCEPT ![l] = pl], st.items,
                         Resp(200, "partial", [NoBody EXCEPT !.updated = st.updated]))
             ELSE Result([lists EXCEPT ![l] = MarkFinal(pl, l)], st.items,
                         Resp(200, "completed",
                              [NoBody EXCEPT !.updated = st.updated,
                                             !.series_code = MarkFinal(pl, l).series_code]))

Complete(u, l, obs, rows) == Commit(CompleteResult(u, l, obs, rows))

(***************************************************************************)
(* Request payloads.  Rows address the items of the list, one id that is   *)
(* no item of the list, and an id that is no integer; a row carries the    *)
(* key "price" or the key "price_soles".                                   *)
(***************************************************************************)
RowForms ==
    {[price |-> Num(p), price_soles |-> Absent] : p \in RowPrices}
    \cup [price : {Absent},
          price_soles : {Null, Garbage} \cup {Num(p) : p \in RowPrices}]

Row(id, form) ==
    [id |-> id, price |-> form.price, price_soles |-> form.price_soles]

OwnIds(l) == {Num(i) : i \in {j \in ItemIds : items[j].purchase_list = l}}

OtherIds(l) == {Num(i) : i \in {j \in 1 .. MaxItems : Num(j) \notin OwnIds(l)}}
               \cup {Garbage}

RowsOver(ids) == {Row(id, form) : id \in ids, form \in RowForms}

Payloads(l) ==
    {<<>>}
    \cup {<<r>> : r \in RowsOver(OwnIds(l) \cup OtherIds(l))}
    \cup {<<r1, r2>> : r1 \in RowsOver(OwnIds(l)), r2 \in RowsOver(OwnIds(l))}

ObsInputs == {Absent}

CompleteInputs(u, l) ==
    IF Visible(u, l) /\ ~IsFinal(lists[l])
    THEN [obs : ObsInputs, rows : Payloads(l)]
    ELSE [obs : ObsInputs,
          rows : {<<>>} \cup {<<r>> : r \in RowsOver({Num(1)})}]

(***************************************************************************)
(* The requests of the behaviours.  The two users are alike, so the lists  *)
(* are created by one of them, at a restaurant of their own, and the other *)
(* user calls the same endpoints on them; the admin picks the product and  *)
(* the unit of an item among those of the list's creator.                  *)
(***************************************************************************)
Creators == {"ana"}

OwnRestaurants(u) == {r \in Restaurants : RestaurantOwner[r] = u}

OwnItemRecords ==
    {it \in ItemRecords :
        /\ it.purchase_list \in ListIds
        /\ Some(ProductOwner[it.product]) = lists[it.purchase_list].created_by
        /\ Some(UnitOwner[it.unit]) = lists[it.purchase_list].created_by}

(***************************************************************************)
(* The requests in progress, one per server worker: where the handler      *)
(* stands (pc), the list it was called on (l), the PurchaseList instance   *)
(* get_object loaded into its memory (pl), and the rows of the payload it  *)
(* still has to apply.  overlap records that the request started while     *)
(* another one was in progress.  Under Spec and the other specifications   *)
(* of whole requests no request is ever in progress.                       *)
(***************************************************************************)
Workers == 1 .. MaxWorkers

NotStarted ==
    [pc |-> "idle", op |-> "none", l |-> 0, pl |-> None, rows |-> <<>>,
     updated |-> 0, overlap |-> FALSE]

NoRequests == [w \in Workers |-> NotStarted]

Init ==
    /\ lists = <<>>
    /\ items = <<>>
    /\ now = 0
    /\ inflight = NoRequests
    /\ units = SeedUnits

Requests ==
    \/ Tick
    \/ \E u \in Creators : \E r \in OwnRestaurants(u) : CreateList(u, r)
    \/ \E it \in OwnItemRecords : AdminAddItem(it)
    \/ \E u \in Users, l \in 1 .. MaxLists : Finalize(u, l)
    \/ \E u \in Users, l \in 1 .. MaxLists :
          \E data \in StepAddItemInputs(u, l) : AddItem(u, l, data)
    \/ \E u \in Users, l \in 1 .. MaxLists :
          \E in \in CompleteInputs(u, l) : Complete(u, l, in.obs, in.rows)
    \/ \E u \in Users, l \in 1 .. MaxLists :
          \E data \in UpdateInputs : UpdateList(u, l, data)

Next ==
    \/ Requests
    \/ \E i \in 1 .. MaxItems, data \in PatchInputs : PatchItem(i, data)

(* Every operation of the model. *)
Spec == Init /\ [][Next]_vars

(* Only addItem, complete and finalize requests on the lists and items     *)
(* that exist (no item patch).                                             *)
SpecRequests == Init /\ [][Requests]_vars

(***************************************************************************)
(* Decimal arithmetic.  A Decimal is coef * 10^(-exp).  qty and            *)
(* price_soles are DecimalField(decimal_places=2): the number a row stores *)
(* counts hundredths.                                                      *)
(***************************************************************************)
Dec(c, e) == [coef |-> c, exp |-> e]

Cents(n) == Dec(n, 2)

RECURSIVE Pow10(_)
Pow10(e) == IF e = 0 THEN 1 ELSE 10 * Pow10(e - 1)

Abs(n) == IF n < 0 THEN 0 - n ELSE n

Sign(n) == IF n < 0 THEN 0 - 1 ELSE 1

(* `x or Decimal("0")`: None and a zero of any exponent are falsy *)
OrZero(x) == IF x = None \/ x[1].coef = 0 THEN Dec(0, 0) ELSE x[1]

DecMul(a, b) == Dec(a.coef * b.coef, a.exp + b.exp)

DecAdd(a, b) ==
    LET e == IF a.exp > b.exp THEN a.exp ELSE b.exp
    IN  Dec(a.coef * Pow10(e - a.exp) + b.coef * Pow10(e - b.exp), e)

(* the integer nearest to n / scale, ties away from zero (ROUND_HALF_UP) *)
RoundHalfUp_HalfEven(n, scale) ==
    LET q == Abs(n) \div scale
        r == Abs(n) % scale
    IN  Sign(n) * (q + (IF 2 * r > scale \/ (2 * r = scale /\ q % 2 = 1) THEN 1 ELSE 0))

RoundHalfUp(n, scale) ==
    LET q == Abs(n) \div scale
        r == Abs(n) % scale
    IN  Sign(n) * (q + (IF 2 * r >= scale THEN 1 ELSE 0))

(* d.quantize(Decimal("0.01"), rounding=ROUND_HALF_UP) *)
Quantize2(d) ==
    IF d.exp <= 2
    THEN Dec(d.coef * Pow10(2 - d.exp), 2)
    ELSE Dec(RoundHalfUp(d.coef, Pow10(d.exp - 2)), 2)

(* serializers._dec2 *)
Dec2(val) == Quantize2(OrZero(Some(val)))

(* qty and price_soles of a stored item, as the Decimals the ORM loads *)
ItemQty(it) == Some(Cents(it.qty))

ItemPrice(it) ==
    IF it.price_soles = None THEN None ELSE Some(Cents(it.price_soles[1]))

(***************************************************************************)
(* PurchaseListItemSerializer.get_subtotal_soles, on the unit flag and the *)
(* (possibly null) qty and price_soles of the instance.                    *)
(***************************************************************************)
GetSubtotalSoles(is_currency, qty, price) ==
    IF is_currency
    THEN Dec2(OrZero(qty))
    ELSE Dec2(DecMul(OrZero(qty), OrZero(price)))

(***************************************************************************)
(* The subtotal of one item in _build_range_payload (price, qty,           *)
(* raw_subtotal, subtotal).                                                *)
(***************************************************************************)
RangeSubtotal(is_currency, qty, price) ==
    Quantize2(IF is_currency THEN OrZero(qty)
              ELSE DecMul(OrZero(qty), OrZero(price)))

(***************************************************************************)
(* GET purchase-lists/{pk}/items/: the items of the list as                *)
(* PurchaseListItemSerializer renders them.                                *)
(***************************************************************************)
ItemData(i) ==
    [id |-> i,
     purchase_list |-> items[i].purchase_list,
     product |-> items[i].product,
     product_name |-> ProductName[items[i].product],
     unit |-> items[i].unit,
     unit_name |-> UnitName[items[i].unit],
     unit_is_currency |-> UnitIsCurrency[items[i].unit],
     qty |-> ItemQty(items[i]),
     price_soles |-> ItemPrice(items[i]),
     subtotal_soles |-> GetSubtotalSoles(UnitIsCurrency[items[i].unit],
                                         ItemQty(items[i]), ItemPrice(items[i]))]

GetItemsResult(u, l) ==
    IF ~Visible(u, l)
    THEN Result(lists, items, Resp(404, "not_found", NoBody))
    ELSE Result(lists, items,
                Resp(200, "items",
                     [data |-> [k \in 1 .. Len(ItemsOf(l)) |-> ItemData(ItemsOf(l)[k])]]))

GetItems(u, l) == Commit(GetItemsResult(u, l))

(***************************************************************************)
(* PurchaseListItem.subtotal_soles, the property of the model: the amount  *)
(* for a currency unit, else qty * price_soles, with no rounding.          *)
(***************************************************************************)
SubtotalSoles(is_currency, qty, price) ==
    IF is_currency THEN OrZero(qty) ELSE DecMul(OrZero(qty), OrZero(price))

(***************************************************************************)
(* The subtotal of one line in _render_pdf_html (price, qty, raw_subtotal, *)
(* subtotal): the Decimal that is added to grand_total and that the line   *)
(* carries as float(subtotal).                                             *)
(***************************************************************************)
PdfSubtotal(is_currency, qty, price) ==
    Quantize2(IF is_currency THEN OrZero(qty)
              ELSE DecMul(OrZero(qty), OrZero(price)))

(* GET purchase-lists/{pk}/pdf/: the lines of the document.                *)
PdfResult(u, l) ==
    IF ~Visible(u, l)
    THEN Result(lists, items, Resp(404, "not_found", NoBody))
    ELSE Result(lists, items,
                Resp(200, "pdf",
                     [lines |-> [k \in 1 .. Len(ItemsOf(l)) |->
                                    LET it == items[ItemsOf(l)[k]]
                                    IN  [product |-> ProductName[it.product],
                                         subtotal |-> PdfSubtotal(UnitIsCurrency[it.unit],
                                                                  ItemQty(it), ItemPrice(it))]]]))

GetPdf(u, l) == Commit(PdfResult(u, l))

(***************************************************************************)
(* _build_range_payload.  The caller is self.request.user; sdate and edate *)
(* are dates, filters holds the four lists of strings export_range         *)
(* collects from the query.  The floats of the payload are written as the  *)
(* two-place Decimals they are converted from.                             *)
(***************************************************************************)
DateOf(t) == t \div TicksPerDay

NoFilters ==
    [category_ids |-> <<>>, category_names |-> <<>>,
     product_ids |-> <<>>, product_names |-> <<>>]

Range(f) == {f[k] : k \in DOMAIN f}

(* _to_int_list: the strings that int() accepts, as integers *)
ToIntList(xs) ==
    LET parsed == SelectSeq(xs, LAMBDA x : x.k = "num")
    IN  [k \in 1 .. Len(parsed) |-> parsed[k].n]

(* qs_lists *)
RangeLists_ExclusiveEnd(u, sdate, edate, only_final) ==
    {l \in ListIds :
        /\ lists[l].created_by = Some(u)
        /\ DateOf(lists[l].created_at) >= sdate
        /\ DateOf(lists[l].created_at) < edate
        /\ only_final => lists[l].status = "final"}

RangeLists(u, sdate, edate, only_final) ==
    {l \in ListIds :
        /\ lists[l].created_by = Some(u)
        /\ DateOf(lists[l].created_at) >= sdate
        /\ DateOf(lists[l].created_at) <= edate
        /\ only_final => lists[l].status = "final"}

CategoryFilter_NamesFallback(i, filters) ==
    IF ToIntList(filters.category_ids) # <<>>
    THEN ProductCategory[items[i].product] \in Range(ToIntList(filters.category_ids))
    ELSE IF filters.category_names # <<>>
    THEN CategoryName[ProductCategory[items[i].product]] \in Range(filters.category_names)
    ELSE TRUE

CategoryFilter(i, filters) ==
    IF filters.category_ids # <<>>
    THEN IF ToIntList(filters.category_ids) # <<>>
         THEN ProductCategory[items[i].product] \in Range(ToIntList(filters.category_ids))
         ELSE TRUE
    ELSE IF filters.category_names # <<>>
    THEN CategoryName[ProductCategory[items[i].product]] \in Range(filters.category_names)
    ELSE TRUE

ProductFilter(i, filters) ==
    IF filters.product_ids # <<>>
    THEN IF ToIntList(filters.product_ids) # <<>>
         THEN items[i].product \in Range(ToIntList(filters.product_ids))
         ELSE TRUE
    ELSE IF filters.product_names # <<>>
    THEN ProductName[items[i].product] \in Range(filters.product_names)
    ELSE TRUE

(* the ids of the items the loop `for it in items` visits, in id order *)
RangeItems(u, sdate, edate, only_final, filters) ==
    SelectSeq(AllItemIds,
              LAMBDA i : /\ items[i].purchase_list \in RangeLists(u, sdate, edate, only_final)
                         /\ CategoryFilter(i, filters)
                         /\ ProductFilter(i, filters))

RestOf(i) == RestaurantName[lists[items[i].purchase_list].restaurant]

CatOf(i) == CategoryName[ProductCategory[items[i].product]]

DateKeyOf(i) == DateOf(lists[items[i].purchase_list].created_at)

ItemSubtotal(i) ==
    RangeSubtotal(UnitIsCurrency[items[i].unit], ItemQty(items[i]), ItemPrice(items[i]))

(* total = (total + subtotal).quantize(...) over the visited items, in     *)
(* order, from Decimal("0.00")                                             *)
RECURSIVE Accumulate(_)
Accumulate(ids) ==
    IF ids = <<>> THEN Dec(0, 2)
    ELSE Quantize2(DecAdd(Accumulate(SubSeq(ids, 1, Len(ids) - 1)),
                          ItemSubtotal(ids[Len(ids)])))

Line(i) ==
    [date |-> DateKeyOf(i),
     product |-> ProductName[items[i].product],
     unit |-> UnitSymbol[items[i].unit],
     qty |-> OrZero(ItemQty(items[i])),
     price |-> IF UnitIsCurrency[items[i].unit] THEN None
               ELSE Some(Quantize2(OrZero(ItemPrice(items[i])))),
     subtotal |-> ItemSubtotal(i),
     unit_is_currency |-> UnitIsCurrency[items[i].unit]]

(* sorted(keys): the catalogue lists restaurant and category names in      *)
(* alphabetical order                                                      *)
SortedKeys(catalogue, keys) == SelectSeq(catalogue, LAMBDA n : n \in keys)

SortedDates(dates) ==
    SelectSeq([k \in 1 .. MaxReportTime + 1 |-> k - 1], LAMBDA d : d \in dates)

CategoryEntry_AllRestaurants(ids, rname, cname, mode) ==
    LET mine == SelectSeq(ids, LAMBDA i : CatOf(i) = cname)
    IN  IF mode = "detail"
        THEN [category |-> cname, total |-> Quantize2(Accumulate(mine)),
              lines |-> [k \in 1 .. Len(mine) |-> Line(mine[k])]]
        ELSE [category |-> cname, total |-> Quantize2(Accumulate(mine))]

CategoryEntry(ids, rname, cname, mode) ==
    LET mine == SelectSeq(ids, LAMBDA i : RestOf(i) = rname /\ CatOf(i) = cname)
    IN  IF mode = "detail"
        THEN [category |-> cname, total |-> Quantize2(Accumulate(mine)),
              lines |-> [k \in 1 .. Len(mine) |-> Line(mine[k])]]
        ELSE [category |-> cname, total |-> Quantize2(Accumulate(mine))]

RestaurantEntry(ids, rname, mode) ==
    LET mine == SelectSeq(ids, LAMBDA i : RestOf(i) = rname)
        cnames == SortedKeys(CategoryName, {CatOf(i) : i \in Range(mine)})
    IN  [restaurant |-> rname,
         total |-> Quantize2(Accumulate(mine)),
         categories |-> [k \in 1 .. Len(cnames) |->
                            CategoryEntry(ids, rname, cnames[k], mode)]]

DateEntry(ids, d) ==
    LET mine == SelectSeq(ids, LAMBDA i : DateKeyOf(i) = d)
    IN  [date |-> d,
         lists |-> Cardinality({items[i].purchase_list : i \in Range(mine)}),
         total |-> Quantize2(Accumulate(mine))]

BuildRangePayload(u, sdate, edate, only_final, mode, filters) ==
    LET ids == RangeItems(u, sdate, edate, only_final, filters)
        rnames == SortedKeys(RestaurantName, {RestOf(i) : i \in Range(ids)})
        dates == SortedDates({DateKeyOf(i) : i \in Range(ids)})
    IN  [mode |-> mode, start |-> sdate, end |-> edate, only_final |-> only_final,
         grand_total |-> Quantize2(Accumulate(ids)),
         restaurants |-> [k \in 1 .. Len(rnames) |-> RestaurantEntry(ids, rnames[k], mode)],
         dates |-> [k \in 1 .. Len(dates) |-> DateEntry(ids, dates[k])]]

(***************************************************************************)
(* GET purchase-lists/export/range/: start and end are required ISO dates  *)
(* (swapped when start > end), only_final is true unless the parameter is  *)
(* "false" in any case, mode is "detail" unless it is "summary".           *)
(***************************************************************************)
OnlyFinalParam(p) == p \notin {"false", "False", "FALSE"}

ModeParam(p) == IF p \in {"detail", "summary"} THEN p ELSE "detail"

ExportRangeResult(u, start, end, only_final, mode, filters) ==
    IF start.k \in {"absent", "blank"} \/ end.k \in {"absent", "blank"}
    THEN Result(lists, items, Resp(400, "dates_required", NoBody))
    ELSE IF start.k # "num" \/ end.k # "num"
    THEN Result(lists, items, Resp(400, "dates_invalid", NoBody))
    ELSE LET sdate == IF start.n > end.n THEN end.n ELSE start.n
             edate == IF start.n > end.n THEN start.n ELSE end.n
         IN  Result(lists, items,
                    Resp(200, "report",
                         BuildRangePayload(u, sdate, edate, OnlyFinalParam(only_final),
                                           ModeParam(mode), filters)))

ExportRange(u, start, end, only_final, mode, filters) ==
    Commit(ExportRangeResult(u, start, end, only_final, mode, filters))

(***************************************************************************)
(* Query strings of the report                                             *)
(***************************************************************************)
Dates == 0 .. DateOf(MaxReportTime)

DateParams == {Absent, Garbage} \cup {Num(d) : d \in Dates}

IdFilters == {<<>>, <<Num(1)>>, <<Num(2)>>, <<Garbage>>, <<Num(1), Garbage>>, <<Num(1), Num(2)>>}

CategoryNameFilters == {<<>>, <<"Pescados">>, <<"Verduras">>}

ProductNameFilters == {<<>>, <<"Cebolla">>, <<"Caballa">>}

CategoryFilters ==
    {[NoFilters EXCEPT !.category_ids = ids, !.category_names = names] :
        ids \in IdFilters, names \in CategoryNameFilters}

ProductFilters ==
    {[NoFilters EXCEPT !.product_ids = ids, !.product_names = names] :
        ids \in IdFilters, names \in ProductNameFilters}

ExportParams ==
    [start : DateParams, end : {Num(0)}, only_final : {"true"}, mode : {"summary"},
     filters : {NoFilters}]
    \cup [start : {Num(0)}, end : {Num(DateOf(MaxReportTime))},
          only_final : {"true", "FALSE"}, mode : {"detail", "pdf"},
          filters : {NoFilters,
                     [NoFilters EXCEPT !.category_ids = <<Num(1)>>],
                     [NoFilters EXCEPT !.product_ids = <<Garbage>>,
                                       !.product_names = <<"Cebolla">>]}]

ReadRequests ==
    \/ \E u \in Users, l \in 1 .. MaxLists : GetItems(u, l)
    \/ \E u \in Users, l \in 1 .. MaxLists : GetPdf(u, l)
    \/ \E u \in Users, q \in ExportParams :
          ExportRange(u, q.start, q.end, q.only_final, q.mode, q.filters)

(***************************************************************************)
(* A database for the report: two lists (the second of either user, at     *)
(* either restaurant) created on the days of the report and three items    *)
(* of two products, by weight with a price or as an amount.                *)
(***************************************************************************)
ListAt(u, r, t, status) ==
    LET pl == [NewList(u, r) EXCEPT !.created_at = t]
    IN  IF status = "final" THEN MarkFinal(pl, 1) ELSE pl

ReportItemKinds ==
    <<[product |-> 1, unit |-> 2, qty |-> 5, price_soles |-> Some(10)],
      [product |-> 2, unit |-> 2, qty |-> 15, price_soles |-> Some(10)],
      [product |-> 2, unit |-> 1, qty |-> 15, price_soles |-> None]>>

ReportItem(kind, l) ==
    [purchase_list |-> l, product |-> kind.product, unit |-> kind.unit,
     qty |-> kind.qty, price_soles |-> kind.price_soles]

ReportItemRecords ==
    [k \in 1 .. 2 * Len(ReportItemKinds) |->
        ReportItem(ReportItemKinds[((k - 1) \div 2) + 1], ((k - 1) % 2) + 1)]

InitReport ==
    /\ now = MaxReportTime
    /\ \E t1 \in 0 .. MaxReportTime - 1, s1 \in {"draft", "final"},
          u2 \in Users, r2 \in Restaurants, t2 \in {0, MaxReportTime} :
          lists = <<ListAt("ana", 1, t1, s1),
                    [ListAt(u2, r2, t2, "final") EXCEPT
                        !.series_code = Some(SeriesCodeFor(ListAt(u2, r2, t2, "draft"), 2))]>>
    /\ \E a \in DOMAIN ReportItemRecords, b \in DOMAIN ReportItemRecords,
          c \in DOMAIN ReportItemRecords :
          /\ a <= b /\ b <= c
          /\ items = <<ReportItemRecords[a], ReportItemRecords[b], ReportItemRecords[c]>>
    /\ inflight = NoRequests
    /\ units = SeedUnits

SpecReport == InitReport /\ [][ReadRequests]_vars

(***************************************************************************)
(* One list with one item of any unit, quantity and price.                 *)
(***************************************************************************)
OptCents == {None} \cup {Some(n) : n \in 0 .. MaxCents}

InitOneItem ==
    /\ now = 0
    /\ lists = <<NewList("ana", 1)>>
    /\ \E un \in {1, 2}, q \in 0 .. MaxCents, pr \in OptCents :
          items = <<[purchase_list |-> 1, product |-> 1, unit |-> un,
                     qty |-> q, price_soles |-> pr]>>
    /\ inflight = NoRequests
    /\ units = SeedUnits

SpecSubtotal == InitOneItem /\ [][ReadRequests]_vars

(***************************************************************************)
(* One draft list that grows past the ten names _ensure_complete_prices    *)
(* prints: the admin adds items to list 1, with or without price among the *)
(* first MaxPricedPrefix items and without price after them, and the users *)
(* call finalize on it.                                                    *)
(***************************************************************************)
InitOneList ==
    /\ now = 0
    /\ lists = <<NewList("ana", 1)>>
    /\ items = <<>>
    /\ inflight = NoRequests
    /\ units = SeedUnits

LongListRecords ==
    {[purchase_list |-> 1, product |-> p, unit |-> 2, qty |-> 1, price_soles |-> None] :
        p \in Products}
    \cup (IF Len(items) < MaxPricedPrefix
          THEN {[purchase_list |-> 1, product |-> 1, unit |-> 2, qty |-> 1,
                 price_soles |-> Some(1)]}
          ELSE {})

NextLongList ==
    \/ \E it \in LongListRecords : AdminSaveItem(it, MaxLongItems)
    \/ \E u \in Users : Finalize(u, 1)

SpecLongList == InitOneList /\ [][NextLongList]_vars

(***************************************************************************)
(* Finalize and complete requests that overlap.  Nothing in either handler *)
(* opens a transaction or locks a row, so a handler is a sequence of       *)
(* database statements and requests served by different workers interleave *)
(* between any two of them:                                                *)
(*   get_object()                   reads the list row into pl;            *)
(*   it.save(update_fields=[...])   writes one item, once per payload row; *)
(*   _ensure_complete_prices(pl)    reads the items of the list;           *)
(*   pl.save(update_fields=[status, finalized_at, series_code])            *)
(*                                  writes three columns of the list row.  *)
(* The status check and the assignments to pl work on the instance in the  *)
(* handler's memory.  Each worker serves one request.                      *)
(***************************************************************************)
InProgress(w) == inflight[w].pc \notin {"idle", "done"}

Begin(w, u, l, op, rows) ==
    /\ inflight[w].pc = "idle"
    /\ inflight' =
          [inflight EXCEPT ![w] =
              IF ~Visible(u, l) \/ IsFinal(lists[l])
              THEN [NotStarted EXCEPT !.pc = "done", !.op = op]
              ELSE [pc |-> IF op = "complete" THEN "rows" ELSE "ensure",
                    op |-> op, l |-> l, pl |-> Some(lists[l]), rows |-> rows,
                    updated |-> 0,
                    overlap |-> \E v \in Workers \ {w} : InProgress(v)]]
    /\ UNCHANGED <<lists, items, now, units>>

FinalizeBegin(w, u, l) == Begin(w, u, l, "finalize", <<>>)

CompleteBegin(w, u, l, rows) == Begin(w, u, l, "complete", rows)

(* One turn of complete's loop over the payload, on the items table as it  *)
(* is now.                                                                 *)
CompleteRow(w) ==
    /\ inflight[w].pc = "rows"
    /\ inflight[w].rows # <<>>
    /\ LET st == ApplyRow([items |-> items, updated |-> inflight[w].updated,
                           raised |-> FALSE],
                          Head(inflight[w].rows), inflight[w].l)
       IN  /\ items' = st.items
           /\ inflight' = [inflight EXCEPT
                              ![w].rows = Tail(inflight[w].rows),
                              ![w].updated = st.updated,
                              ![w].pc = IF st.raised THEN "done" ELSE "rows"]
    /\ UNCHANGED <<lists, now, units>>

(* _ensure_complete_prices on the items as they are now; when it passes,   *)
(* the assignments pl.status, pl.finalized_at, pl.series_code.             *)
EnsureAndMark(w) ==
    /\ \/ inflight[w].pc = "ensure"
       \/ inflight[w].pc = "rows" /\ inflight[w].rows = <<>>
    /\ inflight' =
          [inflight EXCEPT ![w] =
              IF Missing(items, inflight[w].l) # <<>>
              THEN [inflight[w] EXCEPT !.pc = "done"]
              ELSE [inflight[w] EXCEPT
                       !.pc = "save",
                       !.pl = Some(MarkFinal(inflight[w].pl[1], inflight[w].l))]]
    /\ UNCHANGED <<lists, items, now, units>>

(* pl.save(update_fields=["status", "finalized_at", "series_code"])        *)
SaveFinal(w) ==
    /\ inflight[w].pc = "save"
    /\ lists' = [lists EXCEPT
                    ![inflight[w].l].status = inflight[w].pl[1].status,
                    ![inflight[w].l].finalized_at = inflight[w].pl[1].finalized_at,
                    ![inflight[w].l].series_code = inflight[w].pl[1].series_code]
    /\ inflight' = [inflight EXCEPT ![w].pc = "done"]
    /\ UNCHANGED <<items, now, units>>

(* Two draft lists of one restaurant, created in the same year, each with  *)
(* one item sold by weight that has a price or not.                        *)
InitConcurrent ==
    /\ now = 0
    /\ lists = <<NewList("ana", 1), NewList("ana", 1)>>
    /\ \E p1 \in StoredPrices \ {Some(0)}, p2 \in StoredPrices \ {Some(0)} :
          items = <<[purchase_list |-> 1, product |-> 1, unit |-> 2, qty |-> 1,
                     price_soles |-> p1],
                    [purchase_list |-> 2, product |-> 1, unit |-> 2, qty |-> 1,
                     price_soles |-> p2]>>
    /\ inflight = NoRequests
    /\ units = SeedUnits

ConcurrentPayloads(l) ==
    {<<>>}
    \cup {<<Row(id, [price |-> Absent, price_soles |-> v])>> :
             id \in OwnIds(l), v \in {Null} \cup {Num(p) : p \in RowPrices}}

NextConcurrent ==
    \/ Tick
    \/ \E w \in Workers, u \in Users, l \in 1 .. MaxLists : FinalizeBegin(w, u, l)
    \/ \E w \in Workers, u \in Users, l \in 1 .. MaxLists :
          \E rows \in ConcurrentPayloads(l) : CompleteBegin(w, u, l, rows)
    \/ \E w \in Workers : CompleteRow(w)
    \/ \E w \in Workers : EnsureAndMark(w)
    \/ \E w \in Workers : SaveFinal(w)

SpecConcurrent == InitConcurrent /\ [][NextConcurrent]_vars

(***************************************************************************)
(* Quantities of either sign.  qty is a DecimalField without validators    *)
(* (models.py), the serializer field built from it has no min_value, and   *)
(* validate_quantity of the patch serializer only parses the text: the     *)
(* requests on one list with one item, with a quantity that is absent,     *)
(* null, no number, negative, zero or positive.                            *)
(***************************************************************************)
SignedQuantities == {Num(-1), Num(0), Num(1)}

QuantityPatchInputs ==
    {[price |-> Absent, price_soles |-> Absent, quantity |-> q[1], qty |-> q[2]] :
        q \in {<<Absent, Absent>>, <<Null, Absent>>, <<Garbage, Absent>>}
              \cup {<<n, Absent>> : n \in SignedQuantities}
              \cup {<<Absent, n>> : n \in SignedQuantities}}

QuantityAddInputs ==
    [purchase_list : {1}, product : {1}, unit : {1, 2},
     qty : {Absent, Garbage} \cup SignedQuantities, price_soles : {Absent}]

NextQuantity ==
    \/ \E i \in 1 .. MaxItems, data \in QuantityPatchInputs : PatchItem(i, data)
    \/ \E u \in Users, data \in QuantityAddInputs : AddItem(u, 1, data)

SpecQuantity == InitOneItem /\ [][NextQuantity]_vars

(***************************************************************************)
(* UnitViewSet: a ModelViewSet over Unit.objects.all() with UnitSerializer *)
(* (is_currency writable).  destroy() is overridden: PurchaseListItem.unit *)
(* is on_delete=PROTECT, so deleting a unit an item refers to raises       *)
(* ProtectedError, answered 409; Product.default_unit is SET_NULL and      *)
(* protects nothing.  update() and partial_update() are the inherited      *)
(* ones.                                                                   *)
(***************************************************************************)
Referenced(k) == \E i \in ItemIds : items[i].unit = k

DestroyUnitStatus(k) ==
    IF units[k].deleted THEN 404
    ELSE IF Referenced(k) THEN 409
    ELSE 204

DestroyUnit(k) ==
    /\ units' = IF DestroyUnitStatus(k) = 204
                THEN [units EXCEPT ![k].deleted = TRUE]
                ELSE units
    /\ UNCHANGED <<lists, items, now, inflight>>

UpdateUnitStatus(k) == IF units[k].deleted THEN 404 ELSE 200

UpdateUnit(k, is_currency) ==
    /\ units' = IF UpdateUnitStatus(k) = 200
                THEN [units EXCEPT ![k].is_currency = is_currency]
                ELSE units
    /\ UNCHANGED <<lists, items, now, inflight>>

(* The admin adds items without price to the draft list 1, in any unit     *)
(* that exists.                                                            *)
UnitItemRecords ==
    {[purchase_list |-> 1, product |-> 1, unit |-> k, qty |-> 1, price_soles |-> None] :
        k \in {j \in Units : ~units[j].deleted}}

NextUnits ==
    \/ \E it \in UnitItemRecords : AdminAddItem(it)
    \/ \E k \in Units : DestroyUnit(k)
    \/ \E k \in Units, is_currency \in BOOLEAN : UpdateUnit(k, is_currency)

SpecUnits == InitOneList /\ [][NextUnits]_vars

(***************************************************************************)
(* Vocabulary of the properties                                            *)
(***************************************************************************)
CreatedBy(u, l) == lists[l].created_by = Some(u)

Draft(l) == lists[l].status = "draft"

Final(l) == lists[l].status = "final"

(* item i of the table its is a non-currency item of list l without price *)
Gap(its, i, l) ==
    /\ its[i].purchase_list = l
    /\ ~UnitIsCurrency[its[i].unit]
    /\ its[i].price_soles = None

HasGap(its, l) == \E i \in 1 .. Len(its) : Gap(its, i, l)

SameFinalization(a, b) ==
    /\ a.status = b.status
    /\ a.series_code = b.series_code
    /\ a.finalized_at = b.finalized_at

(* every payload of complete, with every observation *)
AllObs == {Absent, Null, Blank, Num(0)}

(* the rows of a payload that address item i *)
Addressed(rows, i) == {k \in 1 .. Len(rows) : rows[k].id = Num(i)}

CoversGaps(rows, l) ==
    \A i \in ItemIds : Gap(items, i, l) => Addressed(rows, i) # {}

(***************************************************************************)
(* C1: a finalize call on a list that is already final is rejected         *)
(* (AlreadyFinalized for its creator, not found for anyone else) and       *)
(* leaves status, series_code and finalized_at as the first finalization   *)
(* set them, also when the clock has moved on.                             *)
(***************************************************************************)
C1_SecondFinalizeRejected ==
    \A u \in Users, l \in ListIds :
        Final(l) =>
            LET r == FinalizeResult(u, l)
            IN  /\ r.response.code \in {400, 404}
                /\ CreatedBy(u, l) => r.response = Resp(400, "already_final", NoBody)
                /\ SameFinalization(r.lists[l], lists[l])

C1_Witness ==
    \E u \in Users, l \in ListIds :
        /\ CreatedBy(u, l) /\ Final(l)
        /\ lists[l].finalized_at # None /\ lists[l].finalized_at[1] < now
        /\ FinalizeResult(u, l).response.detail = "already_final"

(***************************************************************************)
(* C2: after any sequence of addItem, complete and finalize requests,      *)
(* every final list has a price on every item whose unit is no currency    *)
(* unit.                                                                   *)
(***************************************************************************)
C2_FinalListsArePriced ==
    \A l \in ListIds : Final(l) => ~HasGap(items, l)

C2_Witness ==
    \E l \in ListIds, i \in ItemIds :
        /\ Final(l)
        /\ items[i].purchase_list = l
        /\ ~UnitIsCurrency[items[i].unit]
        /\ items[i].price_soles # None

(***************************************************************************)
(* C3: every item with a currency unit has price_soles null, and addItem   *)
(* with a currency unit succeeds and stores a null price whatever price    *)
(* was supplied.                                                           *)
(***************************************************************************)
C3_CurrencyItemsHaveNoPrice ==
    /\ \A i \in ItemIds : UnitIsCurrency[items[i].unit] => items[i].price_soles = None
    /\ \A u \in Users, l \in ListIds :
          (CreatedBy(u, l) /\ Draft(l)) =>
            \A data \in AddItemInputs(l) :
              (/\ ProductOwner[data.product] = u /\ UnitOwner[data.unit] = u
               /\ UnitIsCurrency[data.unit]
               /\ data.qty.k = "num" /\ data.price_soles.k \in {"absent", "num"}) =>
                LET r == AddItemResult(u, l, data)
                IN  /\ r.response.code = 201
                    /\ Len(r.items) = Len(items) + 1
                    /\ r.items[Len(r.items)].price_soles = None

(***************************************************************************)
(* C4: addItem and complete on a final list are rejected and change        *)
(* neither the lists nor the items.                                        *)
(***************************************************************************)
C4_FinalListRejectsMutations ==
    \A u \in Users, l \in ListIds :
        Final(l) =>
            /\ \A data \in AddItemInputs(l) :
                  LET r == AddItemResult(u, l, data)
                  IN  /\ r.response.code \in {400, 404}
                      /\ CreatedBy(u, l) => r.response.code = 400
                      /\ r.lists = lists /\ r.items = items
            /\ \A obs \in AllObs, rows \in Payloads(l) :
                  LET r == CompleteResult(u, l, obs, rows)
                  IN  /\ r.response.code \in {400, 404}
                      /\ CreatedBy(u, l) => r.response.code = 400
                      /\ r.lists = lists /\ r.items = items

C4_Witness ==
    \E u \in Users, l \in ListIds, i \in ItemIds :
        /\ CreatedBy(u, l) /\ Final(l)
        /\ items[i].purchase_list = l /\ ~UnitIsCurrency[items[i].unit]
        /\ \E rows \in Payloads(l) :
              /\ Addressed(rows, i) # {}
              /\ CompleteResult(u, l, Num(0), rows).response.detail = "already_final"
        /\ \E data \in AddItemInputs(l) :
              AddItemResult(u, l, data).response.detail = "list_final"

(***************************************************************************)
(* C5: PurchaseListItemPatchSerializer.update never changes qty or         *)
(* price_soles of an item whose parent list is final.                      *)
(***************************************************************************)
C5_PatchLeavesFinalItems ==
    \A i \in ItemIds :
        Final(items[i].purchase_list) =>
            \A data \in PatchInputs :
                LET r == PatchItemResult(i, data)
                IN  /\ r.items[i].qty = items[i].qty
                    /\ r.items[i].price_soles = items[i].price_soles

(***************************************************************************)
(* C6: addItem on a draft list with a product and a unit of the caller     *)
(* and a valid quantity answers with the created item, and the items are   *)
(* then the previous items plus that one item, attached to the list.       *)
(***************************************************************************)
C6_AddItemPersists ==
    \A u \in Users, l \in ListIds :
        (CreatedBy(u, l) /\ Draft(l)) =>
            \A data \in AddItemInputs(l) :
              (/\ ProductOwner[data.product] = u /\ UnitOwner[data.unit] = u
               /\ data.qty.k = "num" /\ data.price_soles.k \in {"absent", "num"}) =>
                LET r == AddItemResult(u, l, data)
                IN  /\ r.response.code = 201
                    /\ Len(r.items) = Len(items) + 1
                    /\ SubSeq(r.items, 1, Len(items)) = items
                    /\ r.items[Len(r.items)].purchase_list = l
                    /\ r.items[Len(r.items)].product = data.product
                    /\ r.items[Len(r.items)].unit = data.unit
                    /\ r.items[Len(r.items)].qty = data.qty.n

(***************************************************************************)
(* C7: finalize on a draft list with a non-currency item without price is  *)
(* rejected with the incomplete-pricing error, which names a product, and  *)
(* changes neither the list (status, series_code, finalized_at) nor any    *)
(* item.                                                                   *)
(***************************************************************************)
C7_IncompleteFinalizeRejected ==
    \A u \in Users, l \in ListIds :
        (CreatedBy(u, l) /\ Draft(l) /\ HasGap(items, l)) =>
            LET r == FinalizeResult(u, l)
            IN  /\ r.response.code = 400
                /\ r.response.detail = "incomplete"
                /\ r.response.body.names # <<>>
                /\ r.lists = lists
                /\ r.items = items

C7_Witness ==
    \E u \in Users, l \in ListIds, i \in ItemIds, j \in ItemIds :
        /\ CreatedBy(u, l) /\ Draft(l)
        /\ Gap(items, i, l)
        /\ items[j].purchase_list = l /\ items[j].price_soles # None
        /\ FinalizeResult(u, l).response.detail = "incomplete"

(***************************************************************************)
(* C8 as claimed: complete on a draft list whose rows, of the form         *)
(* {id, price}, give a price to every non-currency item that lacks one     *)
(* ends with the list final, a series_code assigned and finalized_at set.  *)
(***************************************************************************)
PriceKeyRows(rows) ==
    \A k \in 1 .. Len(rows) :
        rows[k].price.k = "num" /\ rows[k].price_soles.k = "absent"

PriceSolesKeyRows(rows) ==
    \A k \in 1 .. Len(rows) :
        rows[k].price_soles.k = "num" /\ rows[k].price.k = "absent"

EndsFinal(r, l) ==
    /\ r.response.code = 200
    /\ r.lists[l].status = "final"
    /\ r.lists[l].series_code \notin {None, Some("")}
    /\ r.lists[l].finalized_at = Some(now)
    /\ r.response.body.series_code = r.lists[l].series_code

C8_CompleteWithPriceRows ==
    \A u \in Users, l \in ListIds :
        (CreatedBy(u, l) /\ Draft(l)) =>
            \A obs \in AllObs, rows \in Payloads(l) :
                (PriceKeyRows(rows) /\ CoversGaps(rows, l)) =>
                    EndsFinal(CompleteResult(u, l, obs, rows), l)

(***************************************************************************)
(* C8 as amended: the same with rows of the form {id, price_soles}, the    *)
(* key the handler reads: every row carries a valid price and every        *)
(* non-currency item of the list without price is addressed by a row.      *)
(***************************************************************************)
C8_CompleteWithPriceSolesRows ==
    \A u \in Users, l \in ListIds :
        (CreatedBy(u, l) /\ Draft(l)) =>
            \A obs \in AllObs, rows \in Payloads(l) :
                (PriceSolesKeyRows(rows) /\ CoversGaps(rows, l)) =>
                    EndsFinal(CompleteResult(u, l, obs, rows), l)

C8_Witness ==
    \E u \in Users, l \in ListIds, i \in ItemIds, j \in ItemIds :
        /\ CreatedBy(u, l) /\ Draft(l)
        /\ i # j /\ Gap(items, i, l) /\ Gap(items, j, l)
        /\ \E rows \in Payloads(l) :
              /\ PriceSolesKeyRows(rows) /\ CoversGaps(rows, l)
              /\ CompleteResult(u, l, Absent, rows).response.detail = "completed"
              /\ ~HasGap(CompleteResult(u, l, Absent, rows).items, l)

(***************************************************************************)
(* C9: when complete runs on a draft list with rows whose prices all       *)
(* parse (a number, null or no price) and, after its updates, some         *)
(* non-currency item of the list still has no price, the answer is a       *)
(* success (200, pricing still incomplete), every addressed non-currency   *)
(* item of the list holds the price of the last row that addresses it,     *)
(* every other item is as before, and the list stays draft with            *)
(* series_code and finalized_at unchanged.                                 *)
(***************************************************************************)
Touchable(i, l) ==
    /\ i \in ItemIds
    /\ items[i].purchase_list = l
    /\ ~UnitIsCurrency[items[i].unit]

LastRow(rows, i) ==
    rows[CHOOSE k \in Addressed(rows, i) : \A j \in Addressed(rows, i) : j <= k]

GivenPrice(row) ==
    IF row.price_soles.k = "num" THEN Some(row.price_soles.n) ELSE None

ExpectedItems(rows, l) ==
    [i \in 1 .. Len(items) |->
        IF Touchable(i, l) /\ Addressed(rows, i) # {}
        THEN [items[i] EXCEPT !.price_soles = GivenPrice(LastRow(rows, i))]
        ELSE items[i]]

AllPricesParse(rows, l) ==
    \A k \in 1 .. Len(rows) :
        (rows[k].id.k = "num" /\ Touchable(rows[k].id.n, l)) =>
            rows[k].price_soles.k # "garbage"

C9_PartialCompleteKeepsDraft ==
    \A u \in Users, l \in ListIds :
        (CreatedBy(u, l) /\ Draft(l)) =>
            \A obs \in AllObs, rows \in Payloads(l) :
                (AllPricesParse(rows, l) /\ HasGap(ExpectedItems(rows, l), l)) =>
                    LET r == CompleteResult(u, l, obs, rows)
                    IN  /\ r.response.code = 200
                        /\ r.response.detail = "partial"
                        /\ r.items = ExpectedItems(rows, l)
                        /\ SameFinalization(r.lists[l], lists[l])
                        /\ r.lists[l].status = "draft"

C9_Witness ==
    \E u \in Users, l \in ListIds, i \in ItemIds, j \in ItemIds :
        /\ CreatedBy(u, l) /\ Draft(l)
        /\ i # j /\ Gap(items, i, l) /\ Gap(items, j, l)
        /\ \E rows \in Payloads(l) :
              LET r == CompleteResult(u, l, Absent, rows)
              IN  /\ r.response.detail = "partial"
                  /\ r.response.body.updated = 1
                  /\ r.items[i].price_soles # None
                  /\ r.items[j].price_soles = None

(***************************************************************************)
(* C10: between requests a list is final exactly when finalized_at is      *)
(* set; a final list has a non-empty series_code; a draft list has no      *)
(* finalized_at.                                                           *)
(***************************************************************************)
C10_FinalIffFinalizedAt ==
    \A l \in ListIds :
        /\ lists[l].status \in {"draft", "final"}
        /\ Final(l) <=> lists[l].finalized_at # None
        /\ Final(l) => lists[l].series_code \notin {None, Some("")}
        /\ Draft(l) => lists[l].finalized_at = None

C10_Witness ==
    \E l \in ListIds, m \in ListIds :
        /\ Final(l) /\ lists[l].finalized_at # None /\ lists[l].series_code # None
        /\ Draft(m) /\ lists[m].finalized_at = None

(***************************************************************************)
(* C11: once a list is final it is final after every later step: no        *)
(* finalize, complete, addItem, item patch or list update request returns  *)
(* it to draft.                                                            *)
(***************************************************************************)
C11_FinalIsForever ==
    [][\A l \in ListIds :
          lists[l].status = "final" =>
              (l \in 1 .. Len(lists') /\ lists'[l].status = "final")]_vars

(* a final list that a later update has moved to another restaurant *)
C11_Witness ==
    \E u \in Users, l \in ListIds :
        /\ CreatedBy(u, l) /\ Final(l)
        /\ lists[l].finalized_at # None /\ lists[l].series_code # None
        /\ lists[l].series_code #
             Some(FormatSeries(YearOf(lists[l].finalized_at[1]),
                               RestaurantCode[lists[l].restaurant], l))
        /\ \E data \in UpdateInputs :
              /\ UpdateListResult(u, l, data).response.code = 200
              /\ UpdateListResult(u, l, data).lists[l].restaurant # lists[l].restaurant

(***************************************************************************)
(* C12: with requests executed one at a time, no two distinct lists hold   *)
(* the same non-null series_code.                                          *)
(***************************************************************************)
C12_SeriesCodesAreUnique ==
    \A l \in ListIds, m \in ListIds :
        (l # m /\ lists[l].series_code # None) =>
            lists[l].series_code # lists[m].series_code

(* two final lists whose codes differ in the sequence number only *)
C12_Witness ==
    \E y \in {YearOf(t) : t \in 0 .. MaxTime}, r \in Restaurants :
        /\ Len(lists) >= 2
        /\ lists[1].series_code = Some(FormatSeries(y, RestaurantCode[r], 1))
        /\ lists[2].series_code = Some(FormatSeries(y, RestaurantCode[r], 2))

(***************************************************************************)
(* C13: when lists of one restaurant (code C), created in year Y and       *)
(* finalized in that year, are the first two lists to be finalized, the    *)
(* first receives series code Y-C-0001 and the second Y-C-0002: a finalize *)
(* that succeeds when k (0 or 1) such lists were finalized before assigns  *)
(* the code with sequence k + 1.                                           *)
(***************************************************************************)
Finalized == {m \in ListIds : lists[m].series_code # None}

SameRestaurantAndYear(l, m) ==
    /\ lists[l].restaurant = lists[m].restaurant
    /\ YearOf(lists[l].created_at) = YearOf(lists[m].created_at)

C13_SeriesCodesCountFromOne ==
    \A u \in Users, l \in ListIds :
        (/\ CreatedBy(u, l) /\ Draft(l) /\ ~HasGap(items, l)
         /\ lists[l].series_code = None
         /\ YearOf(now) = YearOf(lists[l].created_at)
         /\ Cardinality(Finalized) <= 1
         /\ \A m \in Finalized :
               /\ SameRestaurantAndYear(l, m)
               /\ lists[m].series_code =
                    Some(FormatSeries(YearOf(lists[m].created_at),
                                      RestaurantCode[lists[m].restaurant], 1))) =>
            FinalizeResult(u, l).lists[l].series_code =
                Some(FormatSeries(YearOf(lists[l].created_at),
                                  RestaurantCode[lists[l].restaurant],
                                  Cardinality(Finalized) + 1))

(***************************************************************************)
(* C20: _ensure_complete_prices, as finalize runs it on a draft list,      *)
(* fails exactly when the list has a non-currency item with null           *)
(* price_soles; the error names the products of those items in iteration   *)
(* order, at most the first 10, and gives the number of further offenders  *)
(* (total minus 10) when there are more than 10; a failure changes no      *)
(* list and no item.                                                       *)
(***************************************************************************)
GapIds(l) == {i \in ItemIds : Gap(items, i, l)}

(* the k-th offender of list l, counting in id order *)
Offender(l, k) ==
    CHOOSE i \in GapIds(l) : Cardinality({j \in GapIds(l) : j < i}) = k - 1

C20_EnsureCompleteNamesOffenders ==
    \A u \in Users, l \in ListIds :
        (CreatedBy(u, l) /\ Draft(l)) =>
            LET r == FinalizeResult(u, l)
                n == Cardinality(GapIds(l))
                shown == IF n <= 10 THEN n ELSE 10
            IN  /\ (r.response.detail = "incomplete") <=> (n > 0)
                /\ n = 0 => r.response.code = 200
                /\ n > 0 =>
                      /\ r.response.code = 400
                      /\ r.response.body.names =
                           [k \in 1 .. shown |-> ProductName[items[Offender(l, k)].product]]
                      /\ r.response.body.more = (IF n > 10 THEN n - 10 ELSE 0)
                      /\ r.lists = lists
                      /\ r.items = items

(* twelve offenders of two products with a priced item among them *)
C20_Witness ==
    \E u \in Users, l \in ListIds, i \in ItemIds :
        /\ CreatedBy(u, l) /\ Draft(l)
        /\ FinalizeResult(u, l).response.body.more = 1
        /\ items[i].purchase_list = l /\ items[i].price_soles # None
        /\ \E j \in GapIds(l), k \in GapIds(l) :
              j < i /\ i < k /\ items[j].product # items[k].product

(***************************************************************************)
(* C14: when finalize and complete requests overlap, under every           *)
(* interleaving of their reads and writes, two different lists of the same *)
(* restaurant created in the same year never hold the same series_code.    *)
(***************************************************************************)
C14_ConcurrentCodesDiffer ==
    \A a \in ListIds, b \in ListIds :
        (/\ a # b
         /\ lists[a].restaurant = lists[b].restaurant
         /\ YearOf(lists[a].created_at) = YearOf(lists[b].created_at)
         /\ lists[a].series_code # None)
        => lists[a].series_code # lists[b].series_code

(* Two requests on two different lists, one started while the other was in *)
(* progress, have both saved a series code.                                *)
C14_Witness ==
    \E v \in Workers, w \in Workers :
        /\ inflight[v].pc = "done" /\ inflight[w].pc = "done"
        /\ inflight[w].overlap
        /\ inflight[v].l # 0 /\ inflight[w].l # 0
        /\ inflight[v].l # inflight[w].l
        /\ lists[inflight[v].l].series_code # None
        /\ lists[inflight[w].l].series_code # None
        /\ lists[inflight[v].l].restaurant = lists[inflight[w].l].restaurant

(***************************************************************************)
(* C15: with quantities and prices counted in hundredths, the subtotal of  *)
(* an item (in the item serializer and in the range report) is qty rounded *)
(* half-up to 2 decimals when the unit is a currency unit, whatever the    *)
(* price; otherwise qty * price_soles multiplied at full precision and     *)
(* rounded half-up to 2 decimals once; a null price or a null qty gives    *)
(* subtotal 0.00.                                                          *)
(***************************************************************************)
AsDecimal(x) == IF x = None THEN None ELSE Some([coef |-> x[1], exp |-> 2])

(* the subtotal in hundredths: qty * price is in ten-thousandths *)
ExpectedSubtotal(is_currency, q, pr) ==
    IF q = None THEN 0
    ELSE IF is_currency THEN q[1]
    ELSE IF pr = None THEN 0
    ELSE (q[1] * pr[1] + 50) \div 100

C15_SubtotalRoundsHalfUp ==
    /\ \A u \in Users, l \in ListIds :
          CreatedBy(u, l) =>
            LET data == GetItemsResult(u, l).response.body.data
            IN  \A k \in 1 .. Len(data) :
                  LET it == items[data[k].id]
                  IN  data[k].subtotal_soles =
                        [coef |-> ExpectedSubtotal(UnitIsCurrency[it.unit],
                                                   Some(it.qty), it.price_soles),
                         exp |-> 2]
    /\ \A i \in ItemIds :
          \A q \in {None, Some(items[i].qty)}, pr \in {None, items[i].price_soles} :
            LET cur == UnitIsCurrency[items[i].unit]
                want == [coef |-> ExpectedSubtotal(cur, q, pr), exp |-> 2]
            IN  /\ GetSubtotalSoles(cur, AsDecimal(q), AsDecimal(pr)) = want
                /\ RangeSubtotal(cur, AsDecimal(q), AsDecimal(pr)) = want
    /\ \A u \in Users :
          LET rep == BuildRangePayload(u, 0, DateOf(MaxReportTime), FALSE, "detail", NoFilters)
          IN  \A r \in DOMAIN rep.restaurants :
                \A c \in DOMAIN rep.restaurants[r].categories :
                  \A k \in DOMAIN rep.restaurants[r].categories[c].lines :
                    \E i \in ItemIds :
                      /\ rep.restaurants[r].categories[c].lines[k] = Line(i)
                      /\ Line(i).subtotal =
                           [coef |-> ExpectedSubtotal(UnitIsCurrency[items[i].unit],
                                                      Some(items[i].qty),
                                                      items[i].price_soles),
                            exp |-> 2]

(* a product that ends in exactly half a hundredth above an even number    *)
(* of hundredths, rounded up                                               *)
C15_Witness ==
    \E i \in ItemIds :
        /\ items[i].price_soles # None
        /\ ~UnitIsCurrency[items[i].unit]
        /\ (items[i].qty * items[i].price_soles[1]) % 100 = 50
        /\ ((items[i].qty * items[i].price_soles[1]) \div 100) % 2 = 0
        /\ GetItemsResult("ana", items[i].purchase_list).response.body.data[1].subtotal_soles.coef
             = ((items[i].qty * items[i].price_soles[1]) \div 100) + 1

(***************************************************************************)
(* Requests of the range report that the properties range over             *)
(***************************************************************************)
DateRanges == {<<0, DateOf(MaxReportTime)>>, <<0, 0>>, <<1, DateOf(MaxReportTime)>>}

SomeFilters ==
    {NoFilters, [NoFilters EXCEPT !.category_ids = <<Num(2)>>],
     [NoFilters EXCEPT !.product_names = <<"Caballa">>]}

RECURSIVE SumOf(_)
SumOf(ns) == IF ns = <<>> THEN 0 ELSE Head(ns) + SumOf(Tail(ns))

Totals(entries) == [k \in DOMAIN entries |-> entries[k].total.coef]

Subtotals(lines) == [k \in DOMAIN lines |-> lines[k].subtotal.coef]

(***************************************************************************)
(* C16: in every report of the range aggregator, in hundredths: for each   *)
(* category the subtotals of its lines add up to the category total        *)
(* (detail mode), for each restaurant the category totals add up to the    *)
(* restaurant total, the restaurant totals add up to the grand total, and  *)
(* the per-date totals add up to the grand total.                          *)
(***************************************************************************)
C16_ReportTotalsAddUp ==
    \A u \in Users, range \in DateRanges, only_final \in BOOLEAN,
       mode \in {"detail", "summary"}, filters \in SomeFilters :
        LET rep == BuildRangePayload(u, range[1], range[2], only_final, mode, filters)
        IN  /\ SumOf(Totals(rep.restaurants)) = rep.grand_total.coef
            /\ SumOf(Totals(rep.dates)) = rep.grand_total.coef
            /\ rep.grand_total.exp = 2
            /\ \A r \in DOMAIN rep.restaurants :
                  /\ SumOf(Totals(rep.restaurants[r].categories)) =
                       rep.restaurants[r].total.coef
                  /\ rep.restaurants[r].total.exp = 2
                  /\ mode = "detail" =>
                        \A c \in DOMAIN rep.restaurants[r].categories :
                          SumOf(Subtotals(rep.restaurants[r].categories[c].lines)) =
                              rep.restaurants[r].categories[c].total.coef

(* a report with two restaurants and two dates, one category of it with    *)
(* two lines whose subtotals were both rounded up                          *)
C16_Witness ==
    \E u \in Users :
        LET rep == BuildRangePayload(u, 0, DateOf(MaxReportTime), FALSE, "detail", NoFilters)
        IN  /\ Len(rep.restaurants) = 2
            /\ Len(rep.dates) = 2
            /\ rep.grand_total.coef > 0
            /\ \E r \in DOMAIN rep.restaurants :
                  \E c \in DOMAIN rep.restaurants[r].categories :
                    /\ Len(rep.restaurants[r].categories[c].lines) = 2
                    /\ rep.restaurants[r].categories[c].total.coef = 2

(* every line of a detail report, restaurant by restaurant *)
RECURSIVE Flatten(_)
Flatten(seqs) == IF seqs = <<>> THEN <<>> ELSE Head(seqs) \o Flatten(Tail(seqs))

CategoryLines(entry) ==
    Flatten([c \in DOMAIN entry.categories |-> entry.categories[c].lines])

ReportLines(rep) ==
    Flatten([r \in DOMAIN rep.restaurants |-> CategoryLines(rep.restaurants[r])])

CategoryOfProductName(name) ==
    ProductCategory[CHOOSE p \in Products : ProductName[p] = name]

(* the integers among the strings of an id filter *)
ListedIds(ids) == {ids[k].n : k \in {j \in DOMAIN ids : ids[j].k = "num"}}

(***************************************************************************)
(* C17: when a category_ids filter is given to the range report, the       *)
(* product of every emitted line belongs to one of the listed categories,  *)
(* and with a single category id every emitted restaurant has exactly one  *)
(* category entry.                                                         *)
(***************************************************************************)
C17_CategoryIdsFilterLines ==
    \A u \in Users, only_final \in BOOLEAN, filters \in CategoryFilters :
        filters.category_ids # <<>> =>
            LET rep == BuildRangePayload(u, 0, DateOf(MaxReportTime), only_final,
                                         "detail", filters)
            IN  /\ \A k \in DOMAIN ReportLines(rep) :
                      CategoryOfProductName(ReportLines(rep)[k].product)
                          \in ListedIds(filters.category_ids)
                /\ Len(filters.category_ids) = 1 =>
                      \A r \in DOMAIN rep.restaurants :
                          Len(rep.restaurants[r].categories) = 1

(***************************************************************************)
(* C18: when the range report is given both an id filter and a name filter *)
(* for one dimension (category or product), the items selected are exactly *)
(* the items of the lists in range that match the id filter, and they are  *)
(* the same as without the name filter.                                    *)
(***************************************************************************)
InRangeItems(u, only_final) ==
    {i \in ItemIds :
        items[i].purchase_list \in RangeLists(u, 0, DateOf(MaxReportTime), only_final)}

Selected(u, only_final, filters) ==
    Range(RangeItems(u, 0, DateOf(MaxReportTime), only_final, filters))

C18_IdFilterTakesPrecedence ==
    \A u \in Users, only_final \in BOOLEAN :
        /\ \A filters \in CategoryFilters :
              (filters.category_ids # <<>> /\ filters.category_names # <<>>) =>
                /\ Selected(u, only_final, filters) =
                     {i \in InRangeItems(u, only_final) :
                        ProductCategory[items[i].product] \in ListedIds(filters.category_ids)}
                /\ Selected(u, only_final, filters) =
                     Selected(u, only_final, [filters EXCEPT !.category_names = <<>>])
        /\ \A filters \in ProductFilters :
              (filters.product_ids # <<>> /\ filters.product_names # <<>>) =>
                /\ Selected(u, only_final, filters) =
                     {i \in InRangeItems(u, only_final) :
                        items[i].product \in ListedIds(filters.product_ids)}
                /\ Selected(u, only_final, filters) =
                     Selected(u, only_final, [filters EXCEPT !.product_names = <<>>])

(***************************************************************************)
(* C19: the items that contribute to a range report are the items of the   *)
(* lists created by the requesting user on a date of the inclusive range   *)
(* [start, end] (final lists only when onlyFinal is true) that pass the     *)
(* category/product filters, each exactly once: the lines of the detail    *)
(* report are their lines, one per item, and the grand total is the sum of *)
(* their subtotals.                                                        *)
(***************************************************************************)
PassesFilters(i, filters) ==
    /\ filters.category_ids # <<>> =>
          ProductCategory[items[i].product] \in ListedIds(filters.category_ids)
    /\ filters.product_names # <<>> =>
          \E k \in DOMAIN filters.product_names :
              filters.product_names[k] = ProductName[items[i].product]

Qualifying(u, sdate, edate, only_final, filters) ==
    {i \in ItemIds :
        LET pl == lists[items[i].purchase_list]
        IN  /\ pl.created_by = Some(u)
            /\ sdate * TicksPerDay <= pl.created_at
            /\ pl.created_at < (edate + 1) * TicksPerDay
            /\ only_final => pl.status = "final"
            /\ PassesFilters(i, filters)}

SubtotalCents(i) ==
    IF UnitIsCurrency[items[i].unit] THEN items[i].qty
    ELSE IF items[i].price_soles = None THEN 0
    ELSE (items[i].qty * items[i].price_soles[1] + 50) \div 100

RECURSIVE SumOver(_)
SumOver(ids) ==
    IF ids = {} THEN 0
    ELSE LET i == CHOOSE j \in ids : TRUE
         IN  SubtotalCents(i) + SumOver(ids \ {i})

C19_ReportCoversQualifyingItems ==
    \A u \in Users, range \in DateRanges, only_final \in BOOLEAN, filters \in SomeFilters :
        LET q == Qualifying(u, range[1], range[2], only_final, filters)
            detail == BuildRangePayload(u, range[1], range[2], only_final, "detail", filters)
            summary == BuildRangePayload(u, range[1], range[2], only_final, "summary", filters)
            lines == ReportLines(detail)
        IN  /\ Len(lines) = Cardinality(q)
            /\ \A i \in q :
                  Cardinality({k \in DOMAIN lines : lines[k] = Line(i)}) =
                  Cardinality({j \in q : Line(j) = Line(i)})
            /\ detail.grand_total.coef = SumOver(q)
            /\ summary.grand_total.coef = SumOver(q)

(* a report over the single day 0 that takes the items of a list created   *)
(* on that day and leaves out an item of a later list of the same user     *)
C19_Witness ==
    \E i \in ItemIds, j \in ItemIds :
        /\ lists[items[i].purchase_list].created_by = Some("ana")
        /\ lists[items[j].purchase_list].created_by = Some("ana")
        /\ DateOf(lists[items[i].purchase_list].created_at) = 0
        /\ DateOf(lists[items[j].purchase_list].created_at) > 0
        /\ i \in Qualifying("ana", 0, 0, FALSE, NoFilters)
        /\ j \notin Qualifying("ana", 0, 0, FALSE, NoFilters)
        /\ Len(ReportLines(BuildRangePayload("ana", 0, 0, FALSE, "detail", NoFilters)))
             = Cardinality(Qualifying("ana", 0, 0, FALSE, NoFilters))

(***************************************************************************)
(* C21: the price-update step of complete, on a draft list with rows whose *)
(* prices all parse: every currency item and every item of another list    *)
(* is as before, every addressed non-currency item of the list holds the   *)
(* price supplied for it (none when the row gives null), and the count the *)
(* response reports is the number of items of the list whose price was     *)
(* set.                                                                    *)
(***************************************************************************)
ItemsSet(rows, l) == {i \in ItemIds : Touchable(i, l) /\ Addressed(rows, i) # {}}

C21_PriceUpdateCountsItems ==
    \A u \in Users, l \in ListIds :
        (CreatedBy(u, l) /\ Draft(l)) =>
            \A obs \in AllObs, rows \in Payloads(l) :
                AllPricesParse(rows, l) =>
                    LET r == CompleteResult(u, l, obs, rows)
                    IN  /\ r.items = ExpectedItems(rows, l)
                        /\ r.response.body.updated = Cardinality(ItemsSet(rows, l))

(***************************************************************************)
(* C22: complete on a draft list with a row whose price is not a decimal   *)
(* is rejected with a validation error (400, invalid price), and the       *)
(* list's observation and status and the price of every item are as they   *)
(* were before the call.                                                   *)
(***************************************************************************)
HasInvalidPrice(rows) == \E k \in 1 .. Len(rows) : rows[k].price_soles.k = "garbage"

C22_InvalidPriceRejectedCleanly ==
    \A u \in Users, l \in ListIds :
        (CreatedBy(u, l) /\ Draft(l)) =>
            \A obs \in AllObs, rows \in Payloads(l) :
                HasInvalidPrice(rows) =>
                    LET r == CompleteResult(u, l, obs, rows)
                    IN  /\ r.response.code = 400
                        /\ r.response.detail = "invalid_price"
                        /\ r.lists[l].observation = lists[l].observation
                        /\ r.lists[l].status = lists[l].status
                        /\ \A i \in ItemIds : r.items[i].price_soles = items[i].price_soles

(***************************************************************************)
(* C23: an addItem request whose quantity is missing, no number or         *)
(* negative is rejected (400) and stores nothing, and whatever quantity    *)
(* patches arrive, every stored item has qty >= 0.                         *)
(***************************************************************************)
C23_QuantitiesNeverNegative ==
    /\ \A i \in ItemIds : items[i].qty >= 0
    /\ \A u \in Users, l \in ListIds, data \in QuantityAddInputs :
          (CreatedBy(u, l) /\ data.qty \notin {Num(0), Num(1)}) =>
              /\ AddItemResult(u, l, data).response.code = 400
              /\ AddItemResult(u, l, data).items = items

(***************************************************************************)
(* C24: a unit that an item refers to is frozen: a delete request on it is *)
(* answered 409, and no step deletes it or changes any of its fields, its  *)
(* is_currency flag in particular; its items stay.                         *)
(***************************************************************************)
C24_ReferencedUnitIsFrozen ==
    [][\A k \in Units :
          Referenced(k) =>
              /\ DestroyUnitStatus(k) = 409
              /\ units'[k] = units[k]
              /\ \A i \in ItemIds : items'[i] = items[i]]_vars

(***************************************************************************)
(* C25: references stay inside the owner's scope: the product and the unit *)
(* of every item belong to the creator of the item's list, and the         *)
(* restaurant of every list belongs to the list's creator.                 *)
(***************************************************************************)
C25_ReferencesStayInScope ==
    /\ \A i \in ItemIds :
          /\ Some(ProductOwner[items[i].product]) = lists[items[i].purchase_list].created_by
          /\ Some(UnitOwner[items[i].unit]) = lists[items[i].purchase_list].created_by
    /\ \A l \in ListIds :
          Some(RestaurantOwner[lists[l].restaurant]) = lists[l].created_by

(***************************************************************************)
(* C26: whatever way the reads and writes of a finalize request and a      *)
(* complete request on the same draft list interleave, once both requests  *)
(* have ended the list is not final with a non-currency item that has no   *)
(* price.                                                                  *)
(***************************************************************************)
BothEnded == \A w \in Workers : inflight[w].pc = "done"

OnSameList ==
    \E v \in Workers, w \in Workers :
        /\ inflight[v].op = "finalize" /\ inflight[w].op = "complete"
        /\ inflight[v].l # 0 /\ inflight[v].l = inflight[w].l

C26_RacingRequestsKeepFinalComplete ==
    (BothEnded /\ OnSameList) =>
        \A l \in ListIds :
            lists[l].status = "final" =>
                \A i \in ItemIds :
                    (items[i].purchase_list = l /\ ~UnitIsCurrency[items[i].unit])
                        => items[i].price_soles # None

(***************************************************************************)
(* C27: of the finalize and complete requests that run on one draft list   *)
(* at the same time, at most one ends with the success answer of a         *)
(* finalization, that is, at most one has saved status, finalized_at and   *)
(* series_code: finalized_at is written once.                              *)
(***************************************************************************)
ReportsFinalized(w) ==
    /\ inflight[w].pc = "done"
    /\ inflight[w].pl # None
    /\ inflight[w].pl[1].status = "final"

C27_OneFinalizationPerList ==
    \A l \in ListIds :
        Cardinality({w \in Workers : ReportsFinalized(w) /\ inflight[w].l = l}) <= 1

(***************************************************************************)
(* C28: for every stored item the four computations of its subtotal give   *)
(* the same number: the model's subtotal_soles, the serializer's           *)
(* get_subtotal_soles, the line of the single-list PDF and the range       *)
(* aggregator.                                                             *)
(***************************************************************************)
SameNumber(a, b) == a.coef * Pow10(b.exp) = b.coef * Pow10(a.exp)

C28_SubtotalsAgree ==
    \A i \in ItemIds :
        LET c == UnitIsCurrency[items[i].unit]
            q == ItemQty(items[i])
            p == ItemPrice(items[i])
        IN  /\ SameNumber(GetSubtotalSoles(c, q, p), PdfSubtotal(c, q, p))
            /\ SameNumber(GetSubtotalSoles(c, q, p), RangeSubtotal(c, q, p))
            /\ SameNumber(GetSubtotalSoles(c, q, p), SubtotalSoles(c, q, p))

(***************************************************************************)
(* C29: in the range report, an id filter (category_ids or product_ids)    *)
(* that is not empty but holds no integer restricts nothing on its         *)
(* dimension, whether or not a name filter for that dimension comes with   *)
(* it: the report is the report without filters.  When some entry is an    *)
(* integer, the entries that are not are ignored: the report is the one    *)
(* for the integer entries alone.                                          *)
(***************************************************************************)
FullRange(u, only_final, filters) ==
    BuildRangePayload(u, 0, DateOf(MaxReportTime), only_final, "detail", filters)

Parseable(ids) == SelectSeq(ids, LAMBDA x : x.k = "num")

C29_UnparseableIdsFilterNothing ==
    \A u \in Users, only_final \in BOOLEAN :
        /\ \A f \in CategoryFilters :
              f.category_ids # <<>> =>
                  IF Parseable(f.category_ids) = <<>>
                  THEN FullRange(u, only_final, f) = FullRange(u, only_final, NoFilters)
                  ELSE FullRange(u, only_final, f)
                         = FullRange(u, only_final,
                                     [f EXCEPT !.category_ids = Parseable(f.category_ids)])
        /\ \A f \in ProductFilters :
              f.product_ids # <<>> =>
                  IF Parseable(f.product_ids) = <<>>
                  THEN FullRange(u, only_final, f) = FullRange(u, only_final, NoFilters)
                  ELSE FullRange(u, only_final, f)
                         = FullRange(u, only_final,
                                     [f EXCEPT !.product_ids = Parseable(f.product_ids)])

(* ana's report holds lines of both categories; asked with category_ids    *)
(* "abc" and category_names Pescados it still shows the Verduras line, and *)
(* asked with category_ids 1 and "abc" it shows Pescados lines only.       *)
C29_Witness ==
    LET all == ReportLines(FullRange("ana", FALSE, NoFilters))
        bad == ReportLines(FullRange("ana", FALSE,
                   [NoFilters EXCEPT !.category_ids = <<Garbage>>,
                                     !.category_names = <<"Pescados">>]))
        mixed == ReportLines(FullRange("ana", FALSE,
                   [NoFilters EXCEPT !.category_ids = <<Num(1), Garbage>>]))
    IN  /\ \E k \in DOMAIN all : CategoryOfProductName(all[k].product) = 1
        /\ \E k \in DOMAIN bad : CategoryOfProductName(bad[k].product) = 2
        /\ mixed # <<>>
        /\ \A k \in DOMAIN mixed : CategoryOfProductName(mixed[k].product) = 1

(***************************************************************************)
(* C30: finalize by its creator on a draft list succeeds (200, the list    *)
(* final with a series code) exactly when no non-currency item of the list *)
(* has a null price_soles; otherwise the list stays draft.  A draft list   *)
(* without items and a list whose non-currency items cost 0 are finalized. *)
(***************************************************************************)
C30_FinalizeIffNoNullPrice ==
    \A u \in Users, l \in ListIds :
        (CreatedBy(u, l) /\ Draft(l)) =>
            LET r == FinalizeResult(u, l)
            IN  IF HasGap(items, l)
                THEN r.response.code = 400 /\ r.lists[l].status = "draft"
                ELSE /\ r.response.code = 200
                     /\ r.lists[l].status = "final"
                     /\ r.lists[l].series_code # None
                     /\ r.response.body.series_code = r.lists[l].series_code

(* Two draft lists of ana, one without items and one whose items, sold by  *)
(* weight, cost 0: finalize succeeds on both.                              *)
C30_Witness ==
    \E k \in ListIds, l \in ListIds, i \in ItemIds :
        /\ CreatedBy("ana", k) /\ Draft(k) /\ CreatedBy("ana", l) /\ Draft(l)
        /\ \A j \in ItemIds : items[j].purchase_list = l
        /\ items[i].price_soles = Some(0) /\ ~UnitIsCurrency[items[i].unit]
        /\ ~HasGap(items, l)
        /\ FinalizeResult("ana", k).response.detail = "finalized"
        /\ FinalizeResult("ana", l).response.detail = "finalized"
        /\ FinalizeResult("ana", l).lists[l].series_code # None

====
